---- MODULE Spec2Model ----
(***************************************************************************)
(* Model of skada/deep/callbacks.py: the two skorch callbacks              *)
(*   ComputeSourceCentroids.on_epoch_begin  (lines 20-75)                  *)
(*   ComputeMemoryBank.__init__/on_batch_end (lines 85-123)                *)
(* and the adaptation-criterion state they write (target_kmeans,           *)
(* memory_features, memory_outputs) plus the module's train/eval mode.     *)
(*                                                                         *)
(* Tensor entries are exact rationals <<n, d>> (d > 0, lowest terms).      *)
(* Logits are given in units of ln 2, so that softmax is rational:         *)
(* softmax(k * ln 2)_i = 2^k_i / SUM_j 2^k_j.  Feature vectors are drawn   *)
(* from integer vectors with an integer L2 norm, so that F.normalize is    *)
(* rational too.                                                           *)
(***************************************************************************)
EXTENDS Integers, Sequences, FiniteSets

VARIABLES
    momentum,          \* ComputeMemoryBank.momentum, NoValue before __init__
    memory_features,   \* criterion.memory_features: sample index -> vector
    memory_outputs,    \* criterion.memory_outputs:  sample index -> vector
    module_training,   \* net.module_.training
    target_kmeans,     \* criterion.target_kmeans, NoKMeans before the first epoch
    kmeans_made,       \* the local target_kmeans of the last on_epoch_begin (l.67-73)
    n_objects,         \* number of SphericalKMeans objects constructed so far
    n_epochs,          \* number of on_epoch_begin calls so far
    n_batches,         \* number of on_batch_end calls so far
    seen_targets,      \* history: sample indices some batch so far held as a target row
    call               \* the last call: its name, arguments and outcome

vars == <<momentum, memory_features, memory_outputs, module_training,
          target_kmeans, kmeans_made, n_objects, n_epochs, n_batches,
          seen_targets, call>>

(***************************************************************************)
(* Bounds of the model.                                                    *)
(***************************************************************************)
MaxEpochs == 2      \* on_epoch_begin calls in a run
MaxBatches == 2     \* on_batch_end calls in a run
MaxCalls == 2       \* callback calls in a run with both callbacks registered

\* sizes of the inputs
RowCounts == {0, 1, 2}        \* samples in dataset_train
BatchRowCounts == {0, 1, 2}   \* rows in a minibatch
SampleIdx == {0, 1}           \* rows of the memory bank
DomainIds == {-1, 0, 1}
Labels == {0, 1, 2}
\* feature vectors with an integer L2 norm (5 and 2)
FeatureSet == {<<3, 4>>, <<0, -2>>}
\* results of one row's forward pass: logits (in units of ln 2) and features
ForwardSet == {[output |-> <<0, 0>>, features |-> <<3, 4>>],
               [output |-> <<1, 0>>, features |-> <<0, -2>>]}
\* momentum values offered to the constructor: -1/2, 0, 7/10 (the default), 1, 3/2
Momenta == {<<-1, 2>>, <<0, 1>>, <<7, 10>>, <<1, 1>>, <<3, 2>>}

NoValue == "None"

(***************************************************************************)
(* Exact rational arithmetic standing for the tensors' float arithmetic.   *)
(***************************************************************************)
Abs(n) == IF n < 0 THEN -n ELSE n

RECURSIVE GCD(_, _)
GCD(a, b) == IF b = 0 THEN a ELSE GCD(b, a % b)

Rat(n, d) ==
    LET s == IF d < 0 THEN -1 ELSE 1
        g == GCD(Abs(n), Abs(d))
    IN  IF n = 0 THEN <<0, 1>> ELSE <<(s * n) \div g, (s * d) \div g>>

RAdd(a, b) == Rat(a[1] * b[2] + b[1] * a[2], a[2] * b[2])
RSub(a, b) == Rat(a[1] * b[2] - b[1] * a[2], a[2] * b[2])
RMul(a, b) == Rat(a[1] * b[1], a[2] * b[2])
RDiv(a, b) == Rat(a[1] * b[2], a[2] * b[1])
RLess(a, b) == a[1] * b[2] < b[1] * a[2]
RLeq(a, b) == a[1] * b[2] <= b[1] * a[2]
One == <<1, 1>>
Zero == <<0, 1>>

VScale(r, v) == [i \in DOMAIN v |-> RMul(r, v[i])]
VAdd(u, v) == [i \in DOMAIN u |-> RAdd(u[i], v[i])]

RECURSIVE RSum(_)
RSum(v) == IF v = <<>> THEN Zero ELSE RAdd(v[1], RSum(Tail(v)))

RECURSIVE VSum(_, _)
\* sum over dim 0 of the rows vs, each of dimension Len(zero)
VSum(vs, zero) == IF vs = <<>> THEN zero ELSE VAdd(vs[1], VSum(Tail(vs), zero))

RECURSIVE Pow2(_)
Pow2(k) == IF k = 0 THEN 1 ELSE 2 * Pow2(k - 1)

ISqrt(n) == CHOOSE k \in 0 .. n : k * k = n

\* F.normalize(x, p=2, dim=1) of one row: x / max(||x||_2, eps)
Normalize(x) ==
    LET n == ISqrt(RSum([i \in DOMAIN x |-> <<x[i] * x[i], 1>>])[1])
    IN  [i \in DOMAIN x |-> IF n = 0 THEN Zero ELSE Rat(x[i], n)]

\* F.softmax(output, dim=1) of one row of logits given in units of ln 2
Softmax(o) ==
    LET tot == RSum([i \in DOMAIN o |-> <<Pow2(o[i]), 1>>])
    IN  [i \in DOMAIN o |-> RDiv(<<Pow2(o[i]), 1>>, tot)]

(***************************************************************************)
(* The inputs of the callbacks.                                            *)
(***************************************************************************)
\* one sample of dataset_train: X["sample_domain"], y, and what
\* net.predict_features returns for it this epoch
DatasetRows == [domain : DomainIds, y : Labels, features : FeatureSet]
Datasets == UNION {[1 .. n -> DatasetRows] : n \in RowCounts}

\* one row of a minibatch: X["sample_idx"], X["sample_domain"], and what
\* net.module_(X, return_features=True) returns for it.  A sample index is
\* unique within the dataset, hence within a batch, and lies within the bank.
BatchRows == [sample_idx : SampleIdx, sample_domain : DomainIds, fwd : ForwardSet]
Batches ==
    {b \in UNION {[1 .. n -> BatchRows] : n \in BatchRowCounts} :
        \A i, j \in DOMAIN b : i # j => b[i].sample_idx # b[j].sample_idx}

(***************************************************************************)
(* ComputeSourceCentroids.on_epoch_begin                                   *)
(***************************************************************************)
SourceMask(d) == d >= 0
\* a mask that takes domain 0 for a target domain
EpochTargetMaskLe(d) == d <= 0
EpochTargetMask(d) == d < 0

Positions(t) == [i \in DOMAIN t |-> i]

\* positions in dataset_train of the rows of X_s / y_s / features_s
\* (boolean-mask indexing keeps the selected rows in order)
SourceRows(ds) == SelectSeq(Positions(ds), LAMBDA i : SourceMask(ds[i].domain))
\* positions in dataset_train of the rows of X_t / features_t
EpochTargetRows(ds) ==
    SelectSeq(Positions(ds), LAMBDA i : EpochTargetMask(ds[i].domain))

\* len(y_s.unique())
NClasses(ds) ==
    LET rows == SourceRows(ds)
    IN  Cardinality({ds[rows[k]].y : k \in DOMAIN rows})

\* positions of the source rows with mask = (y_s == c)
ClassRows(ds, c) ==
    SelectSeq(SourceRows(ds), LAMBDA r : ds[r].y = c)

RECURSIVE LoopClasses(_, _, _)
\* for c in range(n_classes): the c whose mask.sum() > 0, in loop order
LoopClasses(ds, c, n) ==
    IF c >= n THEN <<>>
    ELSE (IF Len(ClassRows(ds, c)) > 0 THEN <<c>> ELSE <<>>)
         \o LoopClasses(ds, c + 1, n)

\* F.normalize(features_s[mask], p=2, dim=1).sum(dim=0)
Centroid(ds, c) ==
    LET rows == ClassRows(ds, c)
    IN  VSum([k \in DOMAIN rows |-> Normalize(ds[rows[k]].features)], <<Zero, Zero>>)

\* the list source_centroids after the loop, with the class of each entry
SourceCentroids(ds) ==
    LET cs == LoopClasses(ds, 0, NClasses(ds))
    IN  [k \in DOMAIN cs |-> Centroid(ds, cs[k])]

\* SphericalKMeans(n_clusters=n_classes, ..., initial_centroids=source_centroids)
\* followed by target_kmeans.fit(features_t); id is the identity of the object
NewKMeans(ds, id, fit_ok) ==
    LET cs == LoopClasses(ds, 0, NClasses(ds))
        rows_t == EpochTargetRows(ds)
    IN  [id |-> id,
         n_clusters |-> NClasses(ds),
         initial_centroids |-> SourceCentroids(ds),
         centroid_classes |-> cs,
         centroid_rows |-> UNION {{ClassRows(ds, cs[k])[j] :
                                      j \in DOMAIN ClassRows(ds, cs[k])} :
                                   k \in DOMAIN cs},
         fit_X |-> [k \in DOMAIN rows_t |-> ds[rows_t[k]].features],
         fit_rows |-> {rows_t[k] : k \in DOMAIN rows_t},
         fitted |-> fit_ok]

\* no clusterer: the attribute target_kmeans before the first assignment, and
\* the local target_kmeans when line 67 is not reached
NoKMeans ==
    [id |-> 0, n_clusters |-> 0, initial_centroids |-> <<>>,
     centroid_classes |-> <<>>, centroid_rows |-> {}, fit_X |-> <<>>,
     fit_rows |-> {}, fitted |-> FALSE]

\* the assignment of line 75 made before fit has returned
PublishedUnfitted(prev, made) == made

\* net.criterion__adapt_criterion.target_kmeans after the call: line 75 is
\* reached only when fit (line 73) has returned
Published(prev, made) == IF made.fitted THEN made ELSE prev

Running == call.raised = "none"

\* identity of the object held by criterion.target_kmeans (0: no attribute yet)
PublishedId == target_kmeans.id

OnEpochBegin(ds, fit_ok) ==
    /\ Running
    /\ n_epochs < MaxEpochs
    /\ n_epochs' = n_epochs + 1
    /\ IF SourceCentroids(ds) = <<>>
       THEN \* torch.stack of an empty list raises (line 64)
            /\ fit_ok
            /\ kmeans_made' = NoKMeans
            /\ UNCHANGED <<target_kmeans, n_objects>>
            /\ call' = [op |-> "on_epoch_begin", arg |-> ds, written |-> {},
                        before |-> PublishedId, raised |-> "RuntimeError"]
       ELSE LET made == NewKMeans(ds, n_objects + 1, fit_ok)
            IN  /\ kmeans_made' = made
                /\ n_objects' = n_objects + 1
                /\ target_kmeans' = Published(target_kmeans, made)
                /\ call' = [op |-> "on_epoch_begin", arg |-> ds, written |-> {},
                            before |-> PublishedId,
                            raised |-> IF fit_ok THEN "none" ELSE "fit"]
    /\ UNCHANGED <<momentum, memory_features, memory_outputs, module_training,
                   n_batches, seen_targets>>

(***************************************************************************)
(* ComputeMemoryBank                                                       *)
(***************************************************************************)
\* 0 <= m < 1
InRange(m) == RLeq(Zero, m) /\ RLess(m, One)

\* a constructor that rejects a momentum outside [0, 1)
InitValidating(m) ==
    IF InRange(m) THEN [momentum |-> m, raised |-> "none"]
    ELSE [momentum |-> NoValue, raised |-> "InvalidArgument"]

\* __init__(self, momentum): stores the argument, whatever it is
ComputeMemoryBank__init__(m) == [momentum |-> m, raised |-> "none"]

Construct(m) ==
    /\ Running
    /\ momentum = NoValue
    /\ LET r == ComputeMemoryBank__init__(m)
       IN  /\ momentum' = r.momentum
           /\ call' = [op |-> "__init__", arg |-> m, written |-> {},
                       before |-> NoValue, raised |-> r.raised]
    /\ UNCHANGED <<memory_features, memory_outputs, module_training,
                   target_kmeans, kmeans_made, n_objects, n_epochs, n_batches,
                   seen_targets>>

\* a mask that takes domain 0 for a target domain
BatchTargetMaskLe(d) == d <= 0
BatchTargetMask(d) == d < 0

\* positions in the batch of the rows of X_t
BatchTargetRows(batch) ==
    SelectSeq(Positions(batch), LAMBDA i : BatchTargetMask(batch[i].sample_domain))

\* the position of each target row in the batch, taken for its sample index
BatchIdxRowPos(batch) ==
    LET rows == BatchTargetRows(batch)
    IN  [k \in DOMAIN rows |-> rows[k] - 1]

\* batch_idx = X["sample_idx"][X["sample_domain"] < 0]
BatchIdx(batch) ==
    LET rows == BatchTargetRows(batch)
    IN  [k \in DOMAIN rows |-> batch[rows[k]].sample_idx]

\* F.normalize(features_t, p=2, dim=1)
FeaturesT(batch) ==
    LET rows == BatchTargetRows(batch)
    IN  [k \in DOMAIN rows |-> Normalize(batch[rows[k]].fwd.features)]

\* F.softmax(output_t, dim=1)
SoftmaxOut(batch) ==
    LET rows == BatchTargetRows(batch)
    IN  [k \in DOMAIN rows |-> Softmax(batch[rows[k]].fwd.output)]

\* softmax_out**2 / ((softmax_out**2).sum(dim=0)): each column divided by
\* its sum over the rows of the batch
OutputsTarget(batch) ==
    LET sm == SoftmaxOut(batch)
        sq == [k \in DOMAIN sm |-> [c \in DOMAIN sm[k] |-> RMul(sm[k][c], sm[k][c])]]
        colsum(c) == RSum([k \in DOMAIN sq |-> sq[k][c]])
    IN  [k \in DOMAIN sq |-> [c \in DOMAIN sq[k] |-> RDiv(sq[k][c], colsum(c))]]

\* The statement of lines 112-114 (and 117-119) ends at the closing
\* parenthesis of the indexing: new = (1.0 - momentum) * memory[batch_idx].
\* Lines 115 and 120, "+self.momentum * ...clone()", are expression
\* statements of their own, whose value is dropped.
Decayed(m, memory, batch_idx) ==
    [k \in DOMAIN batch_idx |-> VScale(RSub(One, m), memory[batch_idx[k]])]

\* memory[:len(batch_idx)] = values: the first rows instead of the indexed ones
IndexPutSlice(memory, batch_idx, values) ==
    [i \in DOMAIN memory |->
        IF i + 1 \in DOMAIN batch_idx THEN values[i + 1] ELSE memory[i]]

\* memory[batch_idx] = values
IndexPut(memory, batch_idx, values) ==
    [i \in DOMAIN memory |->
        IF \E k \in DOMAIN batch_idx : batch_idx[k] = i
        THEN values[CHOOSE k \in DOMAIN batch_idx : batch_idx[k] = i]
        ELSE memory[i]]

\* the previous mode restored at the end of the call
ModuleEvalRestore(training) == training

\* net.module_.eval(): the mode of the module after the call
ModuleEval(training) == FALSE

OnBatchEnd(batch) ==
    /\ Running
    /\ momentum # NoValue
    /\ n_batches < MaxBatches
    /\ n_batches' = n_batches + 1
    /\ module_training' = ModuleEval(module_training)
    /\ LET batch_idx == BatchIdx(batch)
           new_memory_features == Decayed(momentum, memory_features, batch_idx)
           new_memory_outputs == Decayed(momentum, memory_outputs, batch_idx)
       IN  /\ memory_features' = IndexPut(memory_features, batch_idx, new_memory_features)
           /\ memory_outputs' = IndexPut(memory_outputs, batch_idx, new_memory_outputs)
    /\ seen_targets' = seen_targets \cup
           {batch[i].sample_idx : i \in {j \in DOMAIN batch : batch[j].sample_domain < 0}}
    /\ call' = [op |-> "on_batch_end", arg |-> batch,
                written |-> {BatchIdx(batch)[k] : k \in DOMAIN BatchIdx(batch)},
                before |-> [training |-> module_training,
                            memory_features |-> memory_features,
                            memory_outputs |-> memory_outputs],
                raised |-> "none"]
    /\ UNCHANGED <<momentum, target_kmeans, kmeans_made, n_objects, n_epochs>>

(***************************************************************************)
(* The state before training.                                              *)
(***************************************************************************)
\* the bank as allocated before training: unit-norm feature rows and
\* probability rows
InitMemoryFeatures == [i \in SampleIdx |-> Normalize(IF i % 2 = 0 THEN <<3, 4>> ELSE <<0, -2>>)]
InitMemoryOutputs == [i \in SampleIdx |-> <<Rat(1, i + 2), Rat(i + 1, i + 2)>>]

Init ==
    /\ momentum = NoValue
    /\ memory_features = InitMemoryFeatures
    /\ memory_outputs = InitMemoryOutputs
    /\ module_training = TRUE
    /\ target_kmeans = NoKMeans
    /\ kmeans_made = NoKMeans
    /\ n_objects = 0
    /\ n_epochs = 0
    /\ n_batches = 0
    /\ seen_targets = {}
    /\ call = [op |-> "none", arg |-> NoValue, written |-> {}, before |-> NoValue,
               raised |-> "none"]

NextBank ==
    \/ \E m \in Momenta : Construct(m)
    \/ \E batch \in Batches : OnBatchEnd(batch)

NextCentroids ==
    \E ds \in Datasets, fit_ok \in BOOLEAN : OnEpochBegin(ds, fit_ok)

\* One net with both callbacks, driven in the order of the training loop:
\* the callbacks are constructed before training, and on_epoch_begin returns
\* before the first batch of the epoch ends.  The joint run fixes the
\* feature extractor's and the module's results (as in the first epoch of a
\* run with frozen weights); domains, labels and indices stay free.
WithinRun == n_epochs + n_batches < MaxCalls
JointDatasets == {ds \in Datasets : \A i \in DOMAIN ds : ds[i].features = <<3, 4>>}
JointBatches == {b \in Batches : \A i \in DOMAIN b : b[i].fwd.features = <<3, 4>>}

Next ==
    \/ \E m \in Momenta : Construct(m)
    \/ \E batch \in JointBatches : WithinRun /\ n_epochs > 0 /\ OnBatchEnd(batch)
    \/ \E ds \in JointDatasets, fit_ok \in BOOLEAN :
          WithinRun /\ momentum # NoValue /\ OnEpochBegin(ds, fit_ok)

\* the memory-bank callback alone
SpecBank == Init /\ [][NextBank]_vars
\* the centroid callback alone
SpecCentroids == Init /\ [][NextCentroids]_vars
\* both callbacks registered on one net
Spec == Init /\ [][Next]_vars

(***************************************************************************)
(* The claims.  Membership of a domain is stated here as the               *)
(* specification states it, independently of the masks of the code.        *)
(***************************************************************************)
IsSourceDomain(d) == d >= 0
IsTargetDomain(d) == d < 0

AfterBatchEnd == call.op = "on_batch_end"
AfterEpochBegin == call.op = "on_epoch_begin"
AfterInit == call.op = "__init__"

\* the sample indices of the target rows of a batch
TargetIdx(b) == {b[i].sample_idx : i \in {j \in DOMAIN b : IsTargetDomain(b[j].sample_domain)}}
\* the labels that occur among the source samples of a dataset
SourceLabels(ds) == {ds[i].y : i \in {j \in DOMAIN ds : IsSourceDomain(ds[j].domain)}}
\* the sum of the normalized features of the source samples of class c
ClassCentroid(ds, c) ==
    LET rows == SelectSeq(Positions(ds),
                          LAMBDA i : IsSourceDomain(ds[i].domain) /\ ds[i].y = c)
    IN  VSum([k \in DOMAIN rows |-> Normalize(ds[rows[k]].features)], <<Zero, Zero>>)

Ema(m, old, new) == VAdd(VScale(RSub(One, m), old), VScale(m, new))

\* C1: after on_batch_end, for every target sample index i of the batch,
\* memory_features[i] and memory_outputs[i] equal
\* (1 - momentum) * old_value + momentum * new_value, old_value being the row
\* before the call and new_value the value computed from the batch
\* (stated for a momentum in [0, 1)).
C1_EmaUpdate ==
    (AfterBatchEnd /\ InRange(momentum)) =>
        LET b == call.arg
            idx == BatchIdx(b)
        IN  \A k \in DOMAIN idx :
               /\ memory_features[idx[k]] =
                    Ema(momentum, call.before.memory_features[idx[k]], FeaturesT(b)[k])
               /\ memory_outputs[idx[k]] =
                    Ema(momentum, call.before.memory_outputs[idx[k]], OutputsTarget(b)[k])

\* C2: a call of on_batch_end changes only the rows of memory_features and
\* memory_outputs whose sample index belongs to a target row of the batch;
\* over any sequence of calls, a row that no batch held as a target row has
\* the value it was allocated with.
C2_OnlyBatchRowsChange ==
    /\ AfterBatchEnd =>
          \A i \in SampleIdx \ TargetIdx(call.arg) :
             /\ memory_features[i] = call.before.memory_features[i]
             /\ memory_outputs[i] = call.before.memory_outputs[i]
    /\ \A i \in SampleIdx \ seen_targets :
          /\ memory_features[i] = InitMemoryFeatures[i]
          /\ memory_outputs[i] = InitMemoryOutputs[i]

\* a second call, on a batch with a target row and a source row, has changed
\* the target's row and left the source's index alone
C2_Witness ==
    /\ AfterBatchEnd
    /\ n_batches = 2
    /\ \E i \in TargetIdx(call.arg) :
          memory_features[i] # call.before.memory_features[i]
    /\ \E j \in DOMAIN call.arg :
          /\ IsSourceDomain(call.arg[j].sample_domain)
          /\ memory_outputs[call.arg[j].sample_idx]
                = call.before.memory_outputs[call.arg[j].sample_idx]

\* C3: with source = (sample_domain >= 0) and target = (sample_domain < 0) in
\* both callbacks: on_batch_end writes the rows of the target samples of the
\* batch and of no source sample; on_epoch_begin passes the target samples,
\* and no source sample, to fit, and sums no target sample into a centroid.
C3_DomainsKeptApart ==
    /\ AfterBatchEnd =>
          /\ call.written = TargetIdx(call.arg)
          /\ \A i \in DOMAIN call.arg :
                IsSourceDomain(call.arg[i].sample_domain) =>
                   /\ call.arg[i].sample_idx \notin call.written
                   /\ memory_features[call.arg[i].sample_idx]
                        = call.before.memory_features[call.arg[i].sample_idx]
                   /\ memory_outputs[call.arg[i].sample_idx]
                        = call.before.memory_outputs[call.arg[i].sample_idx]
    /\ (AfterEpochBegin /\ kmeans_made.id # 0) =>
          /\ kmeans_made.fit_rows =
                {r \in DOMAIN call.arg : IsTargetDomain(call.arg[r].domain)}
          /\ \A r \in kmeans_made.centroid_rows : IsSourceDomain(call.arg[r].domain)
          /\ kmeans_made.centroid_rows # {}

\* an epoch whose dataset held source and target samples has published its
\* clusterer, and a batch with a source row and a target row has been handled
C3_Witness ==
    /\ AfterBatchEnd
    /\ call.written # {}
    /\ \E i \in DOMAIN call.arg : call.arg[i].sample_domain = 0
    /\ target_kmeans.fit_rows # {}
    /\ target_kmeans.centroid_rows # {}

\* C4: on_batch_end on a batch with no target row raises nothing and leaves
\* memory_features and memory_outputs as they were.
C4_NoTargetRowsNoOp ==
    (AfterBatchEnd /\ TargetIdx(call.arg) = {}) =>
        /\ call.raised = "none"
        /\ call.written = {}
        /\ memory_features = call.before.memory_features
        /\ memory_outputs = call.before.memory_outputs

\* a non-empty batch of source rows only, handled with a momentum under
\* which a write would have changed the rows
C4_Witness ==
    /\ AfterBatchEnd
    /\ Len(call.arg) > 0
    /\ TargetIdx(call.arg) = {}
    /\ momentum = <<7, 10>>
    /\ call.raised = "none"

\* C5: on_epoch_begin emits a centroid for a class if and only if the class
\* has a source sample: every label that occurs among the source samples,
\* whatever its id, gets exactly one centroid, in class-id order.
C5_CentroidPerObservedClass ==
    AfterEpochBegin =>
        LET cs == kmeans_made.centroid_classes
        IN  /\ {cs[k] : k \in DOMAIN cs} = SourceLabels(call.arg)
            /\ Len(cs) = Cardinality(SourceLabels(call.arg))
            /\ \A j, k \in DOMAIN cs : j < k => cs[j] < cs[k]

\* C6: whenever on_epoch_begin invokes the clusterer, n_clusters equals the
\* number of initial centroids, which is the number of classes with a source
\* sample in the epoch.
C6_ClusterCountMatchesCentroids ==
    (AfterEpochBegin /\ kmeans_made.id # 0) =>
        /\ kmeans_made.n_clusters = Len(kmeans_made.initial_centroids)
        /\ kmeans_made.n_clusters = Cardinality(SourceLabels(call.arg))

\* C7: every on_epoch_begin that returns has published a clusterer that is a
\* new object (not the one published before the call), seeded only from the
\* centroids of this epoch's source samples and fitted on this epoch's target
\* features; the published clusterer is never one whose fit has not returned.
C7_FreshFittedClusterer ==
    /\ target_kmeans.id # 0 => target_kmeans.fitted
    /\ (AfterEpochBegin /\ call.raised = "none") =>
          /\ target_kmeans = kmeans_made
          /\ target_kmeans.id # call.before
          /\ target_kmeans.id = n_objects
          /\ \A k \in DOMAIN target_kmeans.initial_centroids :
                target_kmeans.initial_centroids[k]
                   = ClassCentroid(call.arg, target_kmeans.centroid_classes[k])
          /\ target_kmeans.fit_rows =
                {r \in DOMAIN call.arg : IsTargetDomain(call.arg[r].domain)}
    /\ (AfterEpochBegin /\ call.raised # "none") => target_kmeans.id = call.before

\* the second epoch has replaced the first epoch's clusterer
C7_Witness ==
    /\ AfterEpochBegin
    /\ call.raised = "none"
    /\ n_epochs = 2
    /\ call.before = 1
    /\ target_kmeans.id = 2
    /\ target_kmeans.fit_rows # {}

\* C8 (as stated): constructing the memory-bank component with a momentum
\* outside [0, 1) signals InvalidArgument.
C8_InvalidMomentumRejected ==
    (AfterInit /\ ~InRange(call.arg)) => call.raised = "InvalidArgument"

\* C8 (amended): constructing the memory-bank component raises nothing and
\* stores the momentum as given, also when it lies outside [0, 1).
C8_MomentumStoredUnchecked ==
    /\ AfterInit => (call.raised = "none" /\ momentum = call.arg)
    /\ call.raised # "InvalidArgument"

\* a momentum outside [0, 1) has been accepted
C8_Witness ==
    /\ AfterInit
    /\ ~InRange(call.arg)
    /\ momentum = call.arg
    /\ call.raised = "none"

\* C9 (as stated): after any sequence of on_batch_end calls every row of
\* memory_outputs sums to 1 (stated for a momentum in [0, 1)).
C9_RowsSumToOne ==
    (AfterBatchEnd /\ InRange(momentum)) =>
        \A i \in SampleIdx : RSum(memory_outputs[i]) = One

\* C9 (amended): starting from memory_outputs rows that each sum to 1, a row
\* that no on_batch_end call has held as a target row still sums to 1, and
\* a call keeps the sum of every row that is not a target row of its batch.
\* Nothing is stated about the sum of a row once it has been a target row.
C9_UntouchedRowsSumToOne ==
    /\ \A i \in SampleIdx \ seen_targets : RSum(memory_outputs[i]) = One
    /\ AfterBatchEnd =>
          \A i \in SampleIdx \ TargetIdx(call.arg) :
             RSum(memory_outputs[i]) = RSum(call.before.memory_outputs[i])

\* one row has been a target row and no longer sums to 1, the other has not
\* and still does
C9_Witness ==
    /\ AfterBatchEnd
    /\ \E i \in seen_targets : RSum(memory_outputs[i]) # One
    /\ \E j \in SampleIdx \ seen_targets : RSum(memory_outputs[j]) = One

\* C10: after on_batch_end the module is in evaluation mode, whatever its
\* mode before the call; the callback does not switch it back.
C10_EvalModeAfterBatchEnd ==
    AfterBatchEnd => module_training = FALSE

\* the module was in training mode when the call began
C10_Witness ==
    /\ AfterBatchEnd
    /\ call.before.training = TRUE
    /\ module_training = FALSE

====
